---- MODULE Spec2Model ----
(***************************************************************************)
(* Merge strategies of scaraplate (src/scaraplate/strategies.py).          *)
(*                                                                         *)
(* Every strategy is constructed with an optional target body, a template  *)
(* body and the template's metadata, and apply() returns the body to       *)
(* write.  Text bodies are sequences of characters (SortedUniqueLines) or  *)
(* of text fragments (TemplateHash); INI bodies are parsed documents.      *)
(* An optional value is a sequence of length 0 (None) or 1.                *)
(***************************************************************************)
EXTENDS Integers, Sequences, FiniteSets, Bags, TLC

VARIABLES
    strategy,           \* the Strategy subclass in use
    file,               \* the target project's file: None or Some(body)
    target_contents,    \* Strategy.target_contents of the last call
    template_contents,  \* Strategy.template_contents of the last call
    template_meta,      \* Strategy.template_meta of the last call
    result,             \* what the last apply() returned
    raised,             \* the exception the last apply() raised, or "none"
    pc,                 \* "ready", "applied", "reapplied", "edited"
    syncs,              \* apply() calls made so far (TemplateHash runs)
    edits               \* local edits made so far (TemplateHash runs)

vars == <<strategy, file, target_contents, template_contents, template_meta,
          result, raised, pc, syncs, edits>>

None == <<>>
Some(x) == <<x>>

SeqsUpTo(S, n) == UNION {[1..k -> S] : k \in 0..n}

NoMeta == [commit_url |-> "-", is_git_dirty |-> FALSE]

(***************************************************************************)
(* Characters, their code points and str.casefold().                       *)
(***************************************************************************)
Codepoint(c) ==
    CASE c = "LF" -> 10
      [] c = "CR" -> 13
      [] c = "1" -> 49
      [] c = "2" -> 50
      [] c = "A" -> 65
      [] c = "B" -> 66
      [] c = "a" -> 97
      [] c = "b" -> 98

FoldChar(c) ==
    CASE c = "A" -> "a"
      [] c = "B" -> "b"
      [] OTHER -> c

casefold(s) == [i \in DOMAIN s |-> FoldChar(s[i])]

\* Python's str < str: lexicographic by code point.
StrLess(a, b) ==
    \E i \in 1..(Len(a) + 1) :
        /\ \A j \in 1..(i - 1) : j <= Len(b) /\ a[j] = b[j]
        /\ \/ i = Len(a) + 1 /\ Len(b) >= i
           \/ i <= Len(a) /\ i <= Len(b) /\ Codepoint(a[i]) < Codepoint(b[i])

(***************************************************************************)
(* SortedUniqueLines                                                       *)
(***************************************************************************)
MaxTemplateLen == 3
MaxTargetLen == 2

LineChars == {"a", "A", "B", "LF", "CR"}

RECURSIVE SplitFrom(_, _, _, _)
SplitFrom(s, i, cur, acc) ==
    IF i > Len(s)
    THEN IF cur = <<>> THEN acc ELSE Append(acc, cur)
    ELSE IF s[i] = "CR" /\ i < Len(s) /\ s[i + 1] = "LF"
    THEN SplitFrom(s, i + 2, <<>>, Append(acc, cur))
    ELSE IF s[i] \in {"LF", "CR"}
    THEN SplitFrom(s, i + 1, <<>>, Append(acc, cur))
    ELSE SplitFrom(s, i + 1, Append(cur, s[i]), acc)

\* str.splitlines(): breaks at \n, \r and \r\n; no final empty line.
splitlines(s) == SplitFrom(s, 1, <<>>, <<>>)

\* key=lambda s: (s.casefold(), s)
LineKeyLess(a, b) ==
    \/ StrLess(casefold(a), casefold(b))
    \/ casefold(a) = casefold(b) /\ StrLess(a, b)

RECURSIVE SortedLines(_)
SortedLines(S) ==
    IF S = {} THEN <<>>
    ELSE LET m == CHOOSE x \in S : \A y \in S \ {x} : LineKeyLess(x, y)
         IN <<m>> \o SortedLines(S \ {m})

RECURSIVE JoinLF(_)
JoinLF(lines) ==
    IF Len(lines) = 0 THEN <<>>
    ELSE IF Len(lines) = 1 THEN lines[1]
    ELSE lines[1] \o <<"LF">> \o JoinLF(Tail(lines))

Range(s) == {s[i] : i \in DOMAIN s}

RECURSIVE Concat(_)
Concat(ss) == IF ss = <<>> THEN <<>> ELSE Head(ss) \o Concat(Tail(ss))

\* Faulty variant: the blank lines are not filtered out.
SortedUniqueLinesApplyKeepBlank(target, template) ==
    LET out_lines == splitlines(template)
                     \o (IF target # None THEN splitlines(target[1]) ELSE <<>>)
        sorted == SortedLines(Range(out_lines))
    IN JoinLF(Append(sorted, <<>>))

\* Faulty variant: the lines are sorted without set(), so repeated lines stay.
SortedUniqueLinesApplyNoSet(target, template) ==
    LET out_lines == splitlines(template)
                     \o (IF target # None THEN splitlines(target[1]) ELSE <<>>)
        sorted == SortedLines(Range(out_lines))
        copies(line) == Cardinality({i \in DOMAIN out_lines : out_lines[i] = line})
        repeated == [i \in DOMAIN sorted |-> [k \in 1..copies(sorted[i]) |-> sorted[i]]]
        kept == SelectSeq(Concat(repeated), LAMBDA line : line # <<>>)
    IN JoinLF(Append(kept, <<>>))

SortedUniqueLinesApply(target, template) ==
    LET out_lines == splitlines(template)
                     \o (IF target # None THEN splitlines(target[1]) ELSE <<>>)
        sorted == SortedLines(Range(out_lines))
        kept == SelectSeq(sorted, LAMBDA line : line # <<>>)
    IN JoinLF(Append(kept, <<>>))

InitLines ==
    /\ strategy = "SortedUniqueLines"
    /\ template_contents \in SeqsUpTo(LineChars, MaxTemplateLen)
    /\ file \in {None} \cup {Some(b) : b \in SeqsUpTo(LineChars, MaxTargetLen)}
    /\ target_contents = None
    /\ template_meta = NoMeta
    /\ result = None
    /\ raised = "none"
    /\ pc = "ready"
    /\ syncs = 0
    /\ edits = 0

\* The first application: the file (if any) is the target.
ApplyLines ==
    /\ pc = "ready"
    /\ target_contents' = file
    /\ result' = Some(SortedUniqueLinesApply(file, template_contents))
    /\ file' = result'
    /\ pc' = "applied"
    /\ UNCHANGED <<strategy, template_contents, template_meta, raised, syncs, edits>>

\* The template is applied again, unchanged, to its own previous output.
ReapplyLines ==
    /\ pc = "applied"
    /\ target_contents' = file
    /\ result' = Some(SortedUniqueLinesApply(file, template_contents))
    /\ file' = result'
    /\ pc' = "reapplied"
    /\ UNCHANGED <<strategy, template_contents, template_meta, raised, syncs, edits>>

NextLines == ApplyLines \/ ReapplyLines

SpecLines == InitLines /\ [][NextLines]_vars

\* Lines of an output body, cut at each LF (the text after the last LF, if
\* any, is a line of its own).
RECURSIVE CutAtLF(_, _)
CutAtLF(s, cur) ==
    IF s = <<>> THEN (IF cur = <<>> THEN <<>> ELSE <<cur>>)
    ELSE IF Head(s) = "LF" THEN <<cur>> \o CutAtLF(Tail(s), <<>>)
    ELSE CutAtLF(Tail(s), Append(cur, Head(s)))

OutLines == CutAtLF(result[1], <<>>)

InputLines ==
    Range(splitlines(template_contents))
        \cup (IF target_contents # None THEN Range(splitlines(target_contents[1])) ELSE {})

LinesShape ==
    /\ \A i, j \in DOMAIN OutLines : i # j => OutLines[i] # OutLines[j]
    /\ \A i \in DOMAIN OutLines : OutLines[i] # <<>>
    /\ \A i \in DOMAIN OutLines : \A k \in DOMAIN OutLines[i] : OutLines[i][k] \notin {"LF", "CR"}
    /\ \A i \in 1..(Len(OutLines) - 1) : LineKeyLess(OutLines[i], OutLines[i + 1])
    /\ Range(OutLines) = InputLines \ {<<>>}

EndsWithOneNewline(body) ==
    /\ Len(body) >= 1
    /\ body[Len(body)] = "LF"
    /\ Len(body) >= 2 => body[Len(body) - 1] # "LF"

\* C7 (as claimed): for every template and optional target, empty and
\* blank-only bodies included, the output has no duplicate lines, no empty
\* lines, is ordered by (case-folded text, exact text) and ends with exactly
\* one trailing newline.
C7_OutputShapeAsClaimed ==
    pc = "applied" => LinesShape /\ EndsWithOneNewline(result[1])

\* C7 (amended): the output has no duplicate lines, no empty lines and is
\* ordered by (case-folded text, exact text); it ends with exactly one
\* trailing newline when the inputs hold at least one non-empty line, and is
\* the empty body when they hold none.
C7_OutputShape ==
    pc = "applied" =>
        /\ LinesShape
        /\ IF InputLines \ {<<>>} # {}
           THEN EndsWithOneNewline(result[1])
           ELSE result[1] = <<>>

\* C7 witness: a target and a template with a shared line, a blank line and
\* lines differing only in case have been merged.
C7_Witness ==
    /\ pc = "applied"
    /\ target_contents # None
    /\ <<>> \in InputLines
    /\ <<"a">> \in InputLines /\ <<"A">> \in InputLines /\ <<"B">> \in InputLines
    /\ Len(OutLines) = 3

\* C8: re-applying the strategy with the unchanged template to its own
\* previous output (from no target or from any target) returns that output
\* byte for byte.
C8_Idempotent ==
    pc = "reapplied" => result = target_contents

\* C8 witness: a re-application whose template has several lines, one of
\* them blank, on a non-empty previous output.
C8_Witness ==
    /\ pc = "reapplied"
    /\ Len(splitlines(template_contents)) >= 2
    /\ <<>> \in Range(splitlines(template_contents))
    /\ Len(target_contents[1]) >= 2

(***************************************************************************)
(* TemplateHash, PythonTemplateHash, GroovyTemplateHash                    *)
(*                                                                         *)
(* A body is a sequence of text fragments: the fixed pieces of the comment *)
(* block, commit URLs, a line break and other text.                        *)
(***************************************************************************)
MaxSyncs == 2
MaxEdits == 1

HashVariants == {"TemplateHash", "PythonTemplateHash", "GroovyTemplateHash"}

\* TemplateMeta.commit_url values: one short, one long enough for a noqa mark.
CommitUrls == {"url_short", "url_long"}

Metas == [commit_url : CommitUrls, is_git_dirty : BOOLEAN]

\* len() of each text fragment.
Width(t) ==
    CASE t = "#" -> 1
      [] t = "//" -> 2
      [] t = "SP" -> 1
      [] t = "Generated by https://github.com/rambler-digital-solutions/scaraplate" -> 68
      [] t = "From " -> 5
      [] t = "(dirty) " -> 8
      [] t = "url_short" -> 40
      [] t = "url_long" -> 80
      [] t = "  # noqa" -> 8
      [] t = "LF" -> 1
      [] t = "x" -> 1

RECURSIVE TextLen(_)
TextLen(s) == IF s = <<>> THEN 0 ELSE Width(Head(s)) + TextLen(Tail(s))

line_comment_start(variant) ==
    IF variant = "GroovyTemplateHash" THEN "//" ELSE "#"

line_length == 87

\* TemplateHash.comment
BaseComment(variant, meta) ==
    LET comment_lines ==
            << <<"Generated by https://github.com/rambler-digital-solutions/scaraplate">>,
               IF meta.is_git_dirty
               THEN <<"From ", "(dirty) ", meta.commit_url>>
               ELSE <<"From ", meta.commit_url>> >>
    IN Concat([i \in DOMAIN comment_lines |->
                 <<line_comment_start(variant), "SP">> \o comment_lines[i] \o <<"LF">>])

\* str.split("\n"): the text after the last break is an item too.
RECURSIVE SplitLF(_, _)
SplitLF(s, cur) ==
    IF s = <<>> THEN <<cur>>
    ELSE IF Head(s) = "LF" THEN <<cur>> \o SplitLF(Tail(s), <<>>)
    ELSE SplitLF(Tail(s), Append(cur, Head(s)))

_maybe_add_noqa(line) ==
    IF TextLen(line) >= line_length THEN line \o <<"  # noqa">> ELSE line

\* PythonTemplateHash.comment
PythonComment(variant, meta) ==
    LET comment_lines == SplitLF(BaseComment(variant, meta), <<>>)
    IN JoinLF([i \in DOMAIN comment_lines |-> _maybe_add_noqa(comment_lines[i])])

Comment(variant, meta) ==
    IF variant = "PythonTemplateHash"
    THEN PythonComment(variant, meta)
    ELSE BaseComment(variant, meta)

\* bytes.__contains__
Contains(text, sub) ==
    \E i \in 0..(Len(text) - Len(sub)) : SubSeq(text, i + 1, i + Len(sub)) = sub

\* Faulty variant: the target is returned without seek(0).
TemplateHashApplyNoSeek(variant, target, template, meta) ==
    LET comment == Comment(variant, meta)
    IN IF target # None /\ Contains(target[1], comment) /\ ~meta.is_git_dirty
       THEN [stream |-> "target", body |-> target[1], pos |-> Len(target[1])]
       ELSE [stream |-> "new", body |-> template \o <<"LF">> \o comment, pos |-> 0]

\* Faulty variant: the hash is looked for in the template instead of the target.
TemplateHashApplyLooksInTemplate(variant, target, template, meta) ==
    LET comment == Comment(variant, meta)
    IN IF target # None /\ Contains(template, comment) /\ ~meta.is_git_dirty
       THEN [stream |-> "target", body |-> target[1], pos |-> 0]
       ELSE [stream |-> "new", body |-> template \o <<"LF">> \o comment, pos |-> 0]

\* TemplateHash.apply: the stream returned, its bytes and its read position.
TemplateHashApply(variant, target, template, meta) ==
    LET comment == Comment(variant, meta)
    IN IF target # None /\ Contains(target[1], comment) /\ ~meta.is_git_dirty
       THEN [stream |-> "target", body |-> target[1], pos |-> 0]
       ELSE [stream |-> "new", body |-> template \o <<"LF">> \o comment, pos |-> 0]

HashTemplates ==
    { <<>>, <<"x">>,
      <<"#", "SP", "Generated by https://github.com/rambler-digital-solutions/scaraplate", "LF",
        "#", "SP", "From ", "url_short", "LF">> }

InitHash ==
    /\ strategy \in HashVariants
    /\ file \in {None, Some(<<"x", "LF">>)}
    /\ target_contents = None
    /\ template_contents = <<>>
    /\ template_meta = NoMeta
    /\ result = None
    /\ raised = "none"
    /\ pc = "ready"
    /\ syncs = 0
    /\ edits = 0

\* One sync: the strategy is applied to the file and the result written back.
SyncHash ==
    /\ syncs < MaxSyncs
    /\ \E template \in HashTemplates, meta \in Metas :
        /\ target_contents' = file
        /\ template_contents' = template
        /\ template_meta' = meta
        /\ result' = Some(TemplateHashApply(strategy, file, template, meta))
    /\ file' = Some(result'[1].body)
    /\ pc' = "applied"
    /\ syncs' = syncs + 1
    /\ UNCHANGED <<strategy, raised, edits>>

\* A local edit of the file between syncs: its first or last fragment is
\* removed, or some text is put in front of the file, after it, or before
\* its last fragment.
EditHash ==
    /\ file # None
    /\ edits < MaxEdits
    /\ \/ \E i \in {1, Len(file[1])} \cap DOMAIN file[1] :
            file' = Some(SubSeq(file[1], 1, i - 1) \o SubSeq(file[1], i + 1, Len(file[1])))
       \/ \E i \in {0, Len(file[1]) - 1, Len(file[1])} \cap (0..Len(file[1])) :
            file' = Some(SubSeq(file[1], 1, i) \o <<"x">> \o SubSeq(file[1], i + 1, Len(file[1])))
    /\ pc' = "edited"
    /\ edits' = edits + 1
    /\ UNCHANGED <<strategy, target_contents, template_contents, template_meta,
                   result, raised, syncs>>

NextHash == SyncHash \/ EditHash

SpecHash == InitHash /\ [][NextHash]_vars

\* The two-line block of TemplateHash.comment, written out.
TwoLineBlock(token, from) ==
    <<token, "SP", "Generated by https://github.com/rambler-digital-solutions/scaraplate", "LF",
      token, "SP">> \o from \o <<"LF">>

\* C5: TemplateHash.apply returns the target itself, byte-identical and at
\* read position 0, exactly when the target is present, the template is not
\* dirty and the target contains the clean two-line block for the commit URL;
\* in every other case it returns the template, one newline and the block,
\* whose second line is "From (dirty) URL" when dirty and "From URL" otherwise.
C5_TemplateHashDetermined ==
    (pc = "applied" /\ strategy # "PythonTemplateHash") =>
        LET token == IF strategy = "GroovyTemplateHash" THEN "//" ELSE "#"
            url == template_meta.commit_url
            clean == TwoLineBlock(token, <<"From ", url>>)
            dirty == TwoLineBlock(token, <<"From ", "(dirty) ", url>>)
            keep == /\ target_contents # None
                    /\ ~template_meta.is_git_dirty
                    /\ Contains(target_contents[1], clean)
        IN /\ keep <=> result[1].stream = "target"
           /\ keep => result[1].body = target_contents[1] /\ result[1].pos = 0
           /\ ~keep => result[1].body =
                          template_contents \o <<"LF">>
                          \o (IF template_meta.is_git_dirty THEN dirty ELSE clean)

\* C5 witness: a target holding the clean block among other text was kept
\* although the template's content differs.
C5_Witness ==
    /\ pc = "applied"
    /\ strategy = "TemplateHash"
    /\ target_contents # None
    /\ ~template_meta.is_git_dirty
    /\ result[1].stream = "target"
    /\ template_contents = <<"x">>
    /\ Len(target_contents[1]) > Len(TwoLineBlock("#", <<"From ", template_meta.commit_url>>)) + 1

IsSyncStep == syncs' = syncs + 1

\* C6: once a sync has been made with clean metadata M, each following sync
\* with the same clean M leaves the file byte-identical, whatever the template
\* and whatever was edited in the file as long as the block for M is still in
\* it; a sync changes an existing file only when the template is dirty or the
\* block for its commit URL is not in the file (another URL, or removed).
C6_ResyncSkip ==
    [][IsSyncStep =>
        LET M == template_meta'
            block == Comment(strategy, M)
        IN /\ ~M.is_git_dirty => Contains(file'[1], block)
           /\ (syncs > 0 /\ template_meta = M /\ ~M.is_git_dirty /\ pc = "applied")
                 => file' = file
           /\ (syncs > 0 /\ template_meta = M /\ ~M.is_git_dirty
                 /\ Contains(file[1], block)) => file' = file
           /\ (file # None /\ file' # file) =>
                 M.is_git_dirty \/ ~Contains(file[1], block)
      ]_vars

\* C6 witness: a second sync with the clean metadata of the first one and
\* another template, after a local edit that left the block in the file,
\* kept the file.
C6_Witness ==
    /\ syncs = 2
    /\ edits = 1
    /\ pc = "applied"
    /\ ~template_meta.is_git_dirty
    /\ template_meta.commit_url = "url_long"
    /\ strategy = "PythonTemplateHash"
    /\ result[1].stream = "target"
    /\ target_contents = file
    /\ SubSeq(file[1], 1, Len(template_contents) + 1) # template_contents \o <<"LF">>
    /\ Len(file[1]) > Len(Comment(strategy, template_meta)) + 2

(***************************************************************************)
(* INI documents (ConfigParser): a function from section names to          *)
(* functions from keys to values.  A section name is a sequence of text    *)
(* fragments (<<"mypy-", "foo">> is [mypy-foo]); a value is a sequence of  *)
(* lines, each a string of characters.                                     *)
(***************************************************************************)
EmptySection == [k \in {} |-> <<>>]

EmptyDoc == [s \in {} |-> EmptySection]

\* parser.has_section
has_section(parser, section) == section \in DOMAIN parser

\* parser[section] = data
SetSection(parser, section, data) ==
    [s \in DOMAIN parser \cup {section} |-> IF s = section THEN data ELSE parser[s]]

\* parser[section][key] = value
SetKey(parser, section, key, value) ==
    [parser EXCEPT ![section] =
        [k \in DOMAIN parser[section] \cup {key} |->
            IF k = key THEN value ELSE parser[section][k]]]

_ensure_section(parser, section) ==
    IF has_section(parser, section) THEN parser
    ELSE SetSection(parser, section, EmptySection)

\* parser[section][key] raises KeyError without the section or the key.
HasKey(parser, section, key) ==
    has_section(parser, section) /\ key \in DOMAIN parser[section]

\* A compiled pattern: its fragments ("ANY" is the regex dot) and whether it
\* ends in $.  All the patterns of this module start with ^.
Pattern(frags, anchored_end) == [frags |-> frags, anchored_end |-> anchored_end]

SingleChars == {".", "-", ":"}

\* pattern.match(name)
Match(pattern, name) ==
    /\ Len(name) >= Len(pattern.frags)
    /\ \A i \in DOMAIN pattern.frags :
          IF pattern.frags[i] = "ANY" THEN name[i] \in SingleChars
          ELSE name[i] = pattern.frags[i]
    /\ pattern.anchored_end => Len(name) = Len(pattern.frags)

Returned(parser) == [raised |-> "none", parser |-> parser]

Raised(exception, parser) == [raised |-> exception, parser |-> parser]

(***************************************************************************)
(* PylintrcMerge                                                           *)
(***************************************************************************)
\* PylintrcMerge._maybe_preserve_key and SetupcfgMerge._maybe_preserve_key
_maybe_preserve_key(template_parser, target_parser, section, key) ==
    IF ~HasKey(target_parser, section, key) THEN template_parser
    ELSE SetKey(_ensure_section(template_parser, section), section, key,
                target_parser[section][key])

\* Faulty variant: the key is taken from the target only when the template has it.
PylintrcMergeApplyOnlyExisting(target, template) ==
    IF target = None THEN template
    ELSE LET keep(parser, key) ==
                 IF HasKey(parser, <<"TYPECHECK">>, key)
                 THEN _maybe_preserve_key(parser, target[1], <<"TYPECHECK">>, key)
                 ELSE parser
         IN keep(keep(template, "ignored-modules"), "ignored-classes")

\* PylintrcMerge.apply
PylintrcMergeApply(target, template) ==
    IF target = None THEN template
    ELSE LET first == _maybe_preserve_key(template, target[1],
                                          <<"TYPECHECK">>, "ignored-modules")
         IN _maybe_preserve_key(first, target[1], <<"TYPECHECK">>, "ignored-classes")

PlainValues == { << <<"a">> >>, << <<"B">> >> }

\* Every section holding any subset of `keys`, each with a plain value.
SectionsOver(keys) ==
    UNION {[ks -> PlainValues] : ks \in SUBSET keys}

PylintrcDocs ==
    LET typecheck == SectionsOver({"ignored-modules", "ignored-classes", "generated-members"})
        master == SectionsOver({"jobs"})
    IN {EmptyDoc}
       \cup {SetSection(EmptyDoc, <<"TYPECHECK">>, t) : t \in typecheck}
       \cup {SetSection(EmptyDoc, <<"MASTER">>, m) : m \in master}
       \cup {SetSection(SetSection(EmptyDoc, <<"TYPECHECK">>, t), <<"MASTER">>, m) :
                t \in typecheck, m \in master}

InitPylintrc ==
    /\ strategy = "PylintrcMerge"
    /\ template_contents \in PylintrcDocs
    /\ file \in {None} \cup {Some(d) : d \in PylintrcDocs}
    /\ target_contents = None
    /\ template_meta = NoMeta
    /\ result = None
    /\ raised = "none"
    /\ pc = "ready"
    /\ syncs = 0
    /\ edits = 0

ApplyPylintrc ==
    /\ pc = "ready"
    /\ target_contents' = file
    /\ result' = Some(PylintrcMergeApply(file, template_contents))
    /\ file' = result'
    /\ pc' = "applied"
    /\ UNCHANGED <<strategy, template_contents, template_meta, raised, syncs, edits>>

NextPylintrc == ApplyPylintrc

SpecPylintrc == InitPylintrc /\ [][NextPylintrc]_vars

PreservedPylintrcKeys == {"ignored-modules", "ignored-classes"}

TargetHas(section, key) ==
    target_contents # None /\ HasKey(target_contents[1], section, key)

\* C9: for each of ignored-modules and ignored-classes of [TYPECHECK] the
\* result has the target's value when the target has the section and key
\* (the section being created when the template lacks it), and the
\* template's value, or no such key, otherwise; every other section and key
\* of the result is exactly the template's and nothing else of the target
\* is in the result.
C9_PylintrcTemplateAuthoritative ==
    pc = "applied" =>
        LET out == result[1]
            tc == <<"TYPECHECK">>
            kept == {k \in PreservedPylintrcKeys : TargetHas(tc, k)}
        IN /\ DOMAIN out = DOMAIN template_contents \cup (IF kept # {} THEN {tc} ELSE {})
           /\ \A s \in DOMAIN out \ {tc} : out[s] = template_contents[s]
           /\ tc \in DOMAIN out =>
                LET old == IF tc \in DOMAIN template_contents
                           THEN template_contents[tc] ELSE EmptySection
                IN /\ DOMAIN out[tc] = DOMAIN old \cup kept
                   /\ \A k \in kept : out[tc][k] = target_contents[1][tc][k]
                   /\ \A k \in DOMAIN old \ kept : out[tc][k] = old[k]

\* C9 witness: the target's ignored-modules replaced the template's other
\* value, ignored-classes stayed the template's, and the target's own
\* sections and keys were left out.
C9_Witness ==
    /\ pc = "applied"
    /\ TargetHas(<<"TYPECHECK">>, "ignored-modules")
    /\ ~TargetHas(<<"TYPECHECK">>, "ignored-classes")
    /\ TargetHas(<<"TYPECHECK">>, "generated-members")
    /\ TargetHas(<<"MASTER">>, "jobs")
    /\ HasKey(template_contents, <<"TYPECHECK">>, "ignored-modules")
    /\ HasKey(template_contents, <<"TYPECHECK">>, "ignored-classes")
    /\ ~has_section(template_contents, <<"MASTER">>)
    /\ template_contents[<<"TYPECHECK">>]["ignored-modules"]
           # target_contents[1][<<"TYPECHECK">>]["ignored-modules"]
    /\ result[1][<<"TYPECHECK">>]["ignored-modules"]
           = target_contents[1][<<"TYPECHECK">>]["ignored-modules"]

(***************************************************************************)
(* Requirement lists (scaraplate.parsers)                                  *)
(***************************************************************************)
Letters == {"a", "A", "b", "B"}

\* The lines of the field that hold a specifier; blank lines are dropped.
parse_setupcfg_requirements(value) == SelectSeq(value, LAMBDA line : line # <<>>)

\* One specifier per line.
dump_setupcfg_requirements(requirements) == requirements

\* The package name: the specifier up to its version qualifier.
RECURSIVE requirement_name(_)
requirement_name(requirement) ==
    IF requirement = <<>> \/ Head(requirement) \notin Letters THEN <<>>
    ELSE <<Head(requirement)>> \o requirement_name(Tail(requirement))

(***************************************************************************)
(* SetupcfgMerge                                                           *)
(***************************************************************************)
normalize_requirement(requirement) == casefold(requirement_name(requirement))

\* sorted(..., key=str.casefold) is stable: an item goes after every item
\* already placed whose key is not greater than its own.
RECURSIVE SortedByCasefold(_)
SortedByCasefold(items) ==
    IF items = <<>> THEN <<>>
    ELSE LET placed == SortedByCasefold(SubSeq(items, 1, Len(items) - 1))
             x == items[Len(items)]
             at == Cardinality({i \in DOMAIN placed :
                                  ~StrLess(casefold(x), casefold(placed[i]))})
         IN SubSeq(placed, 1, at) \o <<x>> \o SubSeq(placed, at + 1, Len(placed))

_parse_requirements(parser, section, key) ==
    IF HasKey(parser, section, key)
    THEN parse_setupcfg_requirements(parser[section][key])
    ELSE <<>>

\* Faulty variant: the template's specifiers are appended whatever the target has.
_merge_requirementsAppendAll(template_parser, target, section, key) ==
    LET template_requirements == _parse_requirements(template_parser, section, key)
        target_requirements ==
            IF target # None THEN _parse_requirements(target[1], section, key) ELSE <<>>
        wanted_requirements == SortedByCasefold(target_requirements \o template_requirements)
    IN SetKey(_ensure_section(template_parser, section), section, key,
              dump_setupcfg_requirements(wanted_requirements))

\* Faulty variant: the combined list is written back unsorted.
_merge_requirementsUnsorted(template_parser, target, section, key) ==
    LET template_requirements == _parse_requirements(template_parser, section, key)
        target_requirements ==
            IF target # None THEN _parse_requirements(target[1], section, key) ELSE <<>>
        existing_requirement_names ==
            {normalize_requirement(target_requirements[i]) : i \in DOMAIN target_requirements}
        wanted_requirements ==
            target_requirements
            \o SelectSeq(template_requirements,
                         LAMBDA r : normalize_requirement(r) \notin existing_requirement_names)
    IN SetKey(_ensure_section(template_parser, section), section, key,
              dump_setupcfg_requirements(wanted_requirements))

\* SetupcfgMerge._merge_requirements; `target` is the optional target parser.
_merge_requirements(template_parser, target, section, key) ==
    LET template_requirements == _parse_requirements(template_parser, section, key)
        target_requirements ==
            IF target # None THEN _parse_requirements(target[1], section, key) ELSE <<>>
        existing_requirement_names ==
            {normalize_requirement(target_requirements[i]) : i \in DOMAIN target_requirements}
        wanted_requirements ==
            SortedByCasefold(
                target_requirements
                \o SelectSeq(template_requirements,
                             LAMBDA r : normalize_requirement(r) \notin existing_requirement_names))
    IN SetKey(_ensure_section(template_parser, section), section, key,
              dump_setupcfg_requirements(wanted_requirements))

NoPattern == <<>>

\* The target section's data, with the template's value for each key the
\* ignore pattern matches.
PreservedSectionData(template_parser, target_parser, section, ignore_keys_pattern) ==
    LET section_data == target_parser[section]
        restored == IF ignore_keys_pattern = NoPattern THEN {}
                    ELSE {k \in DOMAIN template_parser[section] :
                             Match(ignore_keys_pattern[1], <<k>>)}
    IN [k \in DOMAIN section_data \cup restored |->
           IF k \in restored THEN template_parser[section][k] ELSE section_data[k]]

\* Faulty variant: the target's keys are laid over the template's section instead
\* of replacing it.
_maybe_preserve_sectionsOverlay(st, target_parser, sections_pattern, ignore_keys_pattern) ==
    IF st.raised # "none" THEN st
    ELSE LET matching == {s \in DOMAIN target_parser : Match(sections_pattern, s)}
             old(s) == IF has_section(st.parser, s) THEN st.parser[s] ELSE EmptySection
         IN Returned([s \in DOMAIN st.parser \cup matching |->
                IF s \in matching
                THEN [k \in DOMAIN old(s) \cup DOMAIN target_parser[s] |->
                         IF k \in DOMAIN target_parser[s] /\ ~(ignore_keys_pattern # NoPattern
                                                             /\ k \in DOMAIN old(s)
                                                             /\ Match(ignore_keys_pattern[1], <<k>>))
                         THEN target_parser[s][k] ELSE old(s)[k]]
                ELSE st.parser[s]])

\* SetupcfgMerge._maybe_preserve_sections.  Each matching target section
\* replaces the template's section of that name; template_parser[section]
\* raises KeyError when an ignore pattern is given and the template has no
\* such section.
_maybe_preserve_sections(st, target_parser, sections_pattern, ignore_keys_pattern) ==
    IF st.raised # "none" THEN st
    ELSE LET matching == {s \in DOMAIN target_parser : Match(sections_pattern, s)}
         IN IF ignore_keys_pattern # NoPattern
               /\ \E s \in matching : ~has_section(st.parser, s)
            THEN Raised("KeyError", st.parser)
            ELSE Returned([s \in DOMAIN st.parser \cup matching |->
                    IF s \in matching
                    THEN PreservedSectionData(st.parser, target_parser, s, ignore_keys_pattern)
                    ELSE st.parser[s]])

PreserveKey(st, target_parser, section, key) ==
    IF st.raised # "none" THEN st
    ELSE Returned(_maybe_preserve_key(st.parser, target_parser, section, key))

MergeRequirements(st, target, section, key) ==
    IF st.raised # "none" THEN st
    ELSE Returned(_merge_requirements(st.parser, target, section, key))

OPTIONS == <<"options">>
EXTRAS_REQUIRE == <<"options", ".", "extras_require">>
ENTRY_POINTS == <<"options", ".", "entry_points">>
DATA_FILES == <<"options", ".", "data_files">>
FREEBSD == <<"freebsd">>
MYPY_FOO == <<"mypy-", "foo">>
TOOL_PYTEST == <<"tool", ":", "pytest">>
BUILD == <<"build">>
METADATA == <<"metadata">>

\* The section patterns of SetupcfgMerge.apply, in its order.
PreservedSectionPatterns ==
    << Pattern(<<"freebsd">>, TRUE),
       Pattern(<<"mypy-">>, FALSE),
       Pattern(<<"options", "ANY", "data_files">>, TRUE),
       Pattern(<<"options", "ANY", "entry_points">>, TRUE) >>

ExtrasRequirePattern == Pattern(<<"options", "ANY", "extras_require">>, TRUE)

DevelopPattern == Pattern(<<"develop">>, TRUE)

\* SetupcfgMerge.apply: the exception raised ("none" when it returns) and
\* the template parser that is serialized.
SetupcfgMergeApply(target, template) ==
    LET start == Returned(template)
        preserved ==
            IF target = None THEN start
            ELSE LET p1 == _maybe_preserve_sections(start, target[1],
                                                    PreservedSectionPatterns[1], NoPattern)
                     p2 == _maybe_preserve_sections(p1, target[1],
                                                    PreservedSectionPatterns[2], NoPattern)
                     p3 == _maybe_preserve_sections(p2, target[1],
                                                    PreservedSectionPatterns[3], NoPattern)
                     p4 == _maybe_preserve_sections(p3, target[1],
                                                    PreservedSectionPatterns[4], NoPattern)
                     p5 == _maybe_preserve_sections(p4, target[1], ExtrasRequirePattern,
                                                    Some(DevelopPattern))
                     k1 == PreserveKey(p5, target[1], TOOL_PYTEST, "testpaths")
                 IN PreserveKey(k1, target[1], BUILD, "executable")
        m1 == MergeRequirements(preserved, target, EXTRAS_REQUIRE, "develop")
    IN MergeRequirements(m1, target, OPTIONS, "install_requires")

\* SetupcfgMerge is constructed on the file and the template and applied;
\* the result, if one is returned, is written to the file.
ApplySetupcfg ==
    /\ pc = "ready"
    /\ target_contents' = file
    /\ LET out == SetupcfgMergeApply(file, template_contents)
       IN /\ raised' = out.raised
          /\ result' = IF out.raised = "none" THEN Some(out.parser) ELSE None
          /\ file' = IF out.raised = "none" THEN Some(out.parser) ELSE file
    /\ pc' = "applied"
    /\ UNCHANGED <<strategy, template_contents, template_meta, syncs, edits>>

\* The same template is applied again to the file the first application
\* wrote.
ReapplySetupcfg ==
    /\ pc = "applied"
    /\ raised = "none"
    /\ target_contents' = file
    /\ LET out == SetupcfgMergeApply(file, template_contents)
       IN /\ raised' = out.raised
          /\ result' = IF out.raised = "none" THEN Some(out.parser) ELSE None
          /\ file' = IF out.raised = "none" THEN Some(out.parser) ELSE file
    /\ pc' = "reapplied"
    /\ UNCHANGED <<strategy, template_contents, template_meta, syncs, edits>>

NextSetupcfg == ApplySetupcfg \/ ReapplySetupcfg

InitSetupcfg(templates, targets) ==
    /\ strategy = "SetupcfgMerge"
    /\ template_contents \in templates
    /\ file \in {None} \cup {Some(d) : d \in targets}
    /\ target_contents = None
    /\ template_meta = NoMeta
    /\ result = None
    /\ raised = "none"
    /\ pc = "ready"
    /\ syncs = 0
    /\ edits = 0

(***************************************************************************)
(* SetupcfgMerge on dependency lists                                       *)
(***************************************************************************)
MaxTemplateReqs == 2
MaxTargetReqs == 2

Specifiers == { <<"a", "1">>, <<"A", "2">>, <<"B">> }

\* The lines of a list field: specifiers and blank lines.
ReqValues(n) == SeqsUpTo(Specifiers \cup {<<>>}, n)

Section1(key, value) == [k \in {key} |-> value]

Section2(key1, value1, key2, value2) ==
    [k \in {key1, key2} |-> IF k = key1 THEN value1 ELSE value2]

\* setup.cfg documents around the two list fields: one of them, or (with
\* `both`) the two with the same lines.
ReqDocs(n, other, both) ==
    {EmptyDoc}
    \cup {SetSection(EmptyDoc, OPTIONS, Section1("packages", other))}
    \cup {SetSection(EmptyDoc, EXTRAS_REQUIRE, Section1("test", other))}
    \cup {SetSection(EmptyDoc, OPTIONS, Section1("install_requires", v)) : v \in ReqValues(n)}
    \cup {SetSection(EmptyDoc, EXTRAS_REQUIRE, Section1("develop", v)) : v \in ReqValues(n)}
    \cup {SetSection(EmptyDoc, EXTRAS_REQUIRE, Section2("develop", v, "test", other)) :
             v \in ReqValues(n)}
    \cup (IF both
          THEN {SetSection(SetSection(EmptyDoc, OPTIONS, Section1("install_requires", v)),
                           EXTRAS_REQUIRE, Section1("develop", v)) : v \in ReqValues(n)}
          ELSE {})

InitRequirements ==
    InitSetupcfg(ReqDocs(MaxTemplateReqs, << <<"a">> >>, TRUE),
                 ReqDocs(MaxTargetReqs, << <<"B">> >>, FALSE))

SpecRequirements == InitRequirements /\ [][NextSetupcfg]_vars

ListFields == { <<OPTIONS, "install_requires">>, <<EXTRAS_REQUIRE, "develop">> }

\* The specifiers of a list field of a document (none without the section
\* or the key).
ListOf(doc, field) ==
    IF field[1] \in DOMAIN doc /\ field[2] \in DOMAIN doc[field[1]]
    THEN SelectSeq(doc[field[1]][field[2]], LAMBDA line : line # <<>>)
    ELSE <<>>

TemplateList(field) == ListOf(template_contents, field)

TargetList(field) ==
    IF target_contents = None THEN <<>> ELSE ListOf(target_contents[1], field)

MergedList(field) == result[1][field[1]][field[2]]

BagOfSeq(items) ==
    [x \in Range(items) |-> Cardinality({i \in DOMAIN items : items[i] = x})]

NamesOf(items) == {normalize_requirement(items[i]) : i \in DOMAIN items}

NoSharedName(items) ==
    \A i, j \in DOMAIN items :
        i # j => normalize_requirement(items[i]) # normalize_requirement(items[j])

Merged == pc = "applied" /\ raised = "none"

\* C1: for both list fields, the list written to the result is all of the
\* target's specifiers plus every template specifier whose normalized name
\* is not among the target's, ordered case-insensitively by specifier text
\* (the target's list being empty without the target, section or key).
C1_RequirementsMerged ==
    Merged =>
        \A field \in ListFields :
            LET added == SelectSeq(TemplateList(field),
                             LAMBDA r : normalize_requirement(r) \notin NamesOf(TargetList(field)))
                out == MergedList(field)
            IN /\ HasKey(result[1], field[1], field[2])
               /\ BagOfSeq(out) = BagOfSeq(TargetList(field) \o added)
               /\ \A i, j \in DOMAIN out :
                     i < j => ~StrLess(casefold(out[j]), casefold(out[i]))

\* C1 witness: a target pin replaced the template's specifier of the same
\* package, the template's other specifier was added, and the order changed.
C1_Witness ==
    /\ Merged
    /\ TemplateList(<<OPTIONS, "install_requires">>) = << <<"B">>, <<"a", "1">> >>
    /\ TargetList(<<OPTIONS, "install_requires">>) = << <<"B">>, <<"A", "2">> >>
    /\ MergedList(<<OPTIONS, "install_requires">>) = << <<"A", "2">>, <<"B">> >>

\* C2 (as claimed): for any template list and any target list no two
\* specifiers of the merged list share a normalized name, and for a name in
\* both lists only the target's specifier is present.
C2_NoDuplicatesAsClaimed ==
    Merged =>
        \A field \in ListFields :
            /\ NoSharedName(MergedList(field))
            /\ \A i \in DOMAIN MergedList(field) :
                  normalize_requirement(MergedList(field)[i]) \in NamesOf(TargetList(field))
                     => MergedList(field)[i] \in Range(TargetList(field))

\* C2 (amended): when neither the template list nor the target list holds
\* two specifiers of the same normalized name, no two specifiers of the
\* merged list share one; and for any lists, the specifiers in the merged
\* list whose name is in the target's list are exactly the target's.
C2_NoDuplicates ==
    Merged =>
        \A field \in ListFields :
            LET out == MergedList(field)
                ofTarget(items) ==
                    SelectSeq(items,
                        LAMBDA r : normalize_requirement(r) \in NamesOf(TargetList(field)))
            IN /\ (NoSharedName(TemplateList(field)) /\ NoSharedName(TargetList(field)))
                     => NoSharedName(out)
               /\ BagOfSeq(ofTarget(out)) = BagOfSeq(TargetList(field))

\* C2 witness: the same package is in both lists under different versions and
\* case, and each list holds another package too.
C2_Witness ==
    /\ Merged
    /\ TemplateList(<<EXTRAS_REQUIRE, "develop">>) = << <<"a", "1">>, <<"B">> >>
    /\ TargetList(<<EXTRAS_REQUIRE, "develop">>) = << <<"A", "2">> >>
    /\ "test" \in DOMAIN target_contents[1][EXTRAS_REQUIRE]
    /\ MergedList(<<EXTRAS_REQUIRE, "develop">>) = << <<"A", "2">>, <<"B">> >>

(***************************************************************************)
(* SetupcfgMerge on sections                                               *)
(***************************************************************************)
MaxTemplateSections == 2
MaxTargetSections == 2

SectionNames ==
    {FREEBSD, MYPY_FOO, DATA_FILES, ENTRY_POINTS, EXTRAS_REQUIRE,
     OPTIONS, TOOL_PYTEST, BUILD, METADATA}

ValueA == << <<"a">> >>
ValueB == << <<"B">> >>
TemplateRequirements == << <<"B">>, <<"a", "1">> >>
TargetRequirements == << <<"A", "2">> >>

\* What a template may hold in a section.
TemplateData(s) ==
    CASE s = OPTIONS ->
            { Section2("install_requires", TemplateRequirements, "packages", ValueA),
              Section1("packages", ValueA) }
      [] s = EXTRAS_REQUIRE ->
            { Section2("develop", TemplateRequirements, "test", ValueA),
              Section1("test", ValueA) }
      [] s = TOOL_PYTEST -> { Section2("testpaths", ValueA, "addopts", ValueA) }
      [] s = BUILD -> { Section1("executable", ValueA) }
      [] OTHER -> { Section2("k", ValueA, "j", ValueA) }

\* What a target may hold in a section.
TargetData(s) ==
    CASE s = OPTIONS ->
            { Section1("install_requires", TargetRequirements), Section1("packages", ValueB) }
      [] s = EXTRAS_REQUIRE ->
            { Section2("develop", TargetRequirements, "docs", ValueB),
              Section1("docs", ValueB) }
      [] s = TOOL_PYTEST -> { Section1("testpaths", ValueB), Section1("addopts", ValueB) }
      [] s = BUILD -> { Section1("executable", ValueB), Section1("k", ValueB) }
      [] OTHER -> { Section1("k", ValueB), Section2("k", ValueA, "m", ValueB) }

\* The documents of at most n sections, each section s holding one of data[s].
DocsOf(data, n) ==
    UNION { {d \in [S -> UNION {data[s] : s \in S}] : \A s \in S : d[s] \in data[s]} :
            S \in {X \in SUBSET SectionNames : Cardinality(X) <= n} }

InitSections ==
    InitSetupcfg(DocsOf([s \in SectionNames |-> TemplateData(s)], MaxTemplateSections),
                 DocsOf([s \in SectionNames |-> TargetData(s)], MaxTargetSections))

SpecSetupcfg == InitSections /\ [][NextSetupcfg]_vars

TargetSections == IF target_contents = None THEN {} ELSE DOMAIN target_contents[1]

MatchesPreservationPattern(s) ==
    \/ \E i \in DOMAIN PreservedSectionPatterns : Match(PreservedSectionPatterns[i], s)
    \/ Match(ExtrasRequirePattern, s)

WhollyPreserved(s) ==
    s \in {FREEBSD, DATA_FILES, ENTRY_POINTS} \/ Head(s) = "mypy-"

TargetSectionsKept ==
    \A s \in TargetSections :
        WhollyPreserved(s) => s \in DOMAIN result[1] /\ result[1][s] = target_contents[1][s]

TemplateOnlySections ==
    {s \in DOMAIN template_contents \ TargetSections : ~MatchesPreservationPattern(s)}

\* C3 (as claimed): each target section named freebsd, options.data_files,
\* options.entry_points or mypy-* is in the result with exactly the target's
\* keys and values, and each section that only the template has and that
\* matches no preservation pattern is in the result with the template's keys
\* and values.
C3_SectionsPreservedAsClaimed ==
    Merged =>
        /\ TargetSectionsKept
        /\ \A s \in TemplateOnlySections :
              s \in DOMAIN result[1] /\ result[1][s] = template_contents[s]

\* C3 (amended): as claimed, except that a template-only [options] section
\* keeps the template's other keys and values while its install_requires is
\* the template's own list sorted case-insensitively (empty when the
\* template has none).
C3_SectionsPreserved ==
    Merged =>
        /\ TargetSectionsKept
        /\ \A s \in TemplateOnlySections :
              /\ s \in DOMAIN result[1]
              /\ IF s # OPTIONS THEN result[1][s] = template_contents[s]
                 ELSE /\ DOMAIN result[1][s] = DOMAIN template_contents[s] \cup {"install_requires"}
                      /\ \A k \in DOMAIN template_contents[s] \ {"install_requires"} :
                            result[1][s][k] = template_contents[s][k]
                      /\ LET out == result[1][s]["install_requires"]
                         IN /\ BagOfSeq(out) = BagOfSeq(TemplateList(<<OPTIONS, "install_requires">>))
                            /\ \A i, j \in DOMAIN out :
                                  i < j => ~StrLess(casefold(out[j]), casefold(out[i]))

\* C3 witness: the target's [mypy-foo] replaced the template's section of
\* other keys, next to a template-only [options] section.
C3_Witness ==
    /\ Merged
    /\ MYPY_FOO \in TargetSections
    /\ MYPY_FOO \in DOMAIN template_contents
    /\ DOMAIN target_contents[1][MYPY_FOO] = {"k", "m"}
    /\ OPTIONS \in TemplateOnlySections
    /\ "install_requires" \in DOMAIN template_contents[OPTIONS]
    /\ result[1][MYPY_FOO] = target_contents[1][MYPY_FOO]

\* C4: apply() returns a result and raises nothing for every well-formed
\* template and optional target, whatever sections and keys either lacks.
C4_NoStrategyFails ==
    pc = "applied" => raised = "none"

\* C10: the result of a first application, fed back as the target with the
\* same template, is merged without error into an equal document.
C10_StableUnderReapplication ==
    pc = "reapplied" => raised = "none" /\ result = target_contents

\* Where the second application returns, it returns its target.
ReapplicationKeepsDocument ==
    (pc = "reapplied" /\ raised = "none") => result = target_contents

====
